---------------------------- MODULE Spec2Model ----------------------------
(***************************************************************************)
(* A model of plot_enrolments.py: the CSV rows of an enrolment log are     *)
(* filtered into records (read_records), reversed into chronological      *)
(* order (main), folded into a day-offset -> running-count histogram and   *)
(* cut to the window [-low, high] (process_records), and handed to the     *)
(* plotting routine (plot_data).                                           *)
(*                                                                         *)
(* A date text is the record of the fields that '%d-%b-%Y %H:%M' reads;    *)
(* a text the format rejects is one whose month is no month abbreviation  *)
(* or whose numbers are out of range; the month is a sequence of letters,  *)
(* which %b reads without regard to case.  time.mktime works in the local  *)
(* time zone of the process, one of Zones and fixed for the run, and the   *)
(* C library keeps the UTC offset of its previous conversion, by which it  *)
(* reads a local time that occurs twice; instants are whole seconds.       *)
(* A CSV row is its field count, its first field and its last field.       *)
(***************************************************************************)
EXTENDS Integers, Sequences, FiniteSets, TLC

VARIABLES tz, localtime_offset, rows, args, pc, records, chron, diag, epoch,
          idx, num_students, histogram, days, counts, chart, annotation, raised

vars == <<tz, localtime_offset, rows, args, pc, records, chron, diag, epoch,
          idx, num_students, histogram, days, counts, chart, annotation, raised>>

----------------------------------------------------------------------------
(* Program constants *)

SECONDS_PER_DAY == 60 * 60 * 24

LAST_MINUTE_OF_DAY == [hour |-> 23, min |-> 59]

NUM_FIELDS == 6

DEFAULT_LOW_BOUND == 50

DEFAULT_HIGH_BOUND == 100

KnownActions == {"Added", "Removed"}

----------------------------------------------------------------------------
(* time.strptime with DATE_FORMAT, and time.mktime *)

UpperLetters ==
    <<"A", "B", "C", "D", "E", "F", "G", "H", "I", "J", "K", "L", "M",
      "N", "O", "P", "Q", "R", "S", "T", "U", "V", "W", "X", "Y", "Z">>

LowerLetters ==
    <<"a", "b", "c", "d", "e", "f", "g", "h", "i", "j", "k", "l", "m",
      "n", "o", "p", "q", "r", "s", "t", "u", "v", "w", "x", "y", "z">>

\* The lower-case letter of each upper-case letter.
LowerTable ==
    [c \in {UpperLetters[i] : i \in 1..26} |->
        LowerLetters[CHOOSE i \in 1..26 : UpperLetters[i] = c]]

LowerChar(c) == IF c \in DOMAIN LowerTable THEN LowerTable[c] ELSE c

\* str.lower()
Lower(txt) == [i \in 1..Len(txt) |-> LowerChar(txt[i])]

\* The month abbreviations as strptime keeps them: in lower case.
MonthNames ==
    << <<"j", "a", "n">>, <<"f", "e", "b">>, <<"m", "a", "r">>,
       <<"a", "p", "r">>, <<"m", "a", "y">>, <<"j", "u", "n">>,
       <<"j", "u", "l">>, <<"a", "u", "g">>, <<"s", "e", "p">>,
       <<"o", "c", "t">>, <<"n", "o", "v">>, <<"d", "e", "c">> >>

\* %b matches, whatever the case of the letters.
IsMonth(mon) ==
    LET found == Lower(mon) IN \E i \in 1..12 : MonthNames[i] = found

MonthIndex(mon) ==
    LET found == Lower(mon) IN CHOOSE i \in 1..12 : MonthNames[i] = found

IsLeap(y) == (y % 4 = 0) /\ ((y % 100 # 0) \/ (y % 400 = 0))

DaysInMonth(m, y) ==
    IF m = 2 THEN (IF IsLeap(y) THEN 29 ELSE 28)
    ELSE IF m \in {4, 6, 9, 11} THEN 30 ELSE 31

RECURSIVE DaysBeforeMonth(_, _)
DaysBeforeMonth(m, y) ==
    IF m = 1 THEN 0 ELSE DaysBeforeMonth(m - 1, y) + DaysInMonth(m - 1, y)

\* Days from 1-Jan-1970 to 1-Jan-y, for y >= 1970.
DaysBeforeYear(y) ==
    365 * (y - 1970) + ((y - 1969) \div 4) - ((y - 1901) \div 100)
        + ((y - 1601) \div 400)

\* Days from 1-Jan-1970 to day d of month m of year y.
DayNumber(y, m, d) == DaysBeforeYear(y) + DaysBeforeMonth(m, y) + (d - 1)

\* strptime accepts the text: every directive of DATE_FORMAT matches and the
\* day exists in the month.
DateOk(t) ==
    /\ IsMonth(t.mon)
    /\ t.year \in 1..9999
    /\ t.day \in 1..DaysInMonth(MonthIndex(t.mon), t.year)
    /\ t.hour \in 0..23
    /\ t.min \in 0..59

\* The local time zones of the process (the TZ of its environment).
Zones == {"UTC", "Asia/Tokyo", "Australia/Melbourne"}

\* The Sunday among the seven days of month m of year y that begin with
\* day n (1-Jan-1970 was a Thursday).
SundayFrom(n, m, y) ==
    CHOOSE d \in n..(n + 6) : (DayNumber(y, m, d) + 4) % 7 = 0

FirstSunday(m, y) == SundayFrom(1, m, y)

LastSunday(m, y) == SundayFrom(DaysInMonth(m, y) - 6, m, y)

\* <<month, day>> a is earlier in the year than <<month, day>> b.
Earlier(a, b) == a[1] < b[1] \/ (a[1] = b[1] /\ a[2] < b[2])

\* Melbourne: for each year 1971..2037 the <<month, day>> on which daylight
\* saving begins, at 02:00 standard time.
DstStart ==
    [y \in 1971..2037 |->
        IF y = 2000 THEN <<8, LastSunday(8, y)>>
        ELSE IF y >= 2008 THEN <<10, FirstSunday(10, y)>>
        ELSE IF y \in {1986, 1987} THEN <<10, SundayFrom(15, 10, y)>>
        ELSE <<10, LastSunday(10, y)>>]

\* Melbourne: for each year 1972..2037 the <<month, day>> on which daylight
\* saving ends, at 03:00 daylight time.
DstEnd ==
    [y \in 1972..2037 |->
        IF y = 1972 THEN <<2, LastSunday(2, y)>>
        ELSE IF y >= 2008 \/ y = 2006 THEN <<4, FirstSunday(4, y)>>
        ELSE IF y \in 1986..1990 THEN <<3, SundayFrom(15, 3, y)>>
        ELSE IF y \in 1995..2007 THEN <<3, LastSunday(3, y)>>
        ELSE <<3, FirstSunday(3, y)>>]

\* mktime reads local time t of Melbourne as daylight time, for the years
\* 1970..2037 (no daylight saving before 31-Oct-1971).  The skipped hour
\* 02:00-02:59 of the day daylight saving begins is read as standard time.
\* The repeated hour 02:00-02:59 of the day it ends is read with the offset
\* of the previous conversion of the process: as daylight time when that was
\* 11 hours, as standard time when it was 10 hours or there was none (prev
\* is 0 in a fresh process).
MelbourneDst(t, prev) ==
    LET here == <<MonthIndex(t.mon), t.day>> IN
    \/ /\ t.year \in DOMAIN DstEnd
       /\ \/ Earlier(here, DstEnd[t.year])
          \/ /\ here = DstEnd[t.year]
             /\ t.hour < 2 \/ (t.hour = 2 /\ prev = 11)
    \/ /\ t.year \in DOMAIN DstStart
       /\ \/ Earlier(DstStart[t.year], here)
          \/ here = DstStart[t.year] /\ t.hour >= 3

\* Hours the local clock of zone z is ahead of UTC at local time t, as mktime
\* decides it after a conversion that used the offset prev.
UtcOffsetHours(z, t, prev) ==
    IF z = "Asia/Tokyo" THEN 9
    ELSE IF z = "Australia/Melbourne"
         THEN (IF MelbourneDst(t, prev) THEN 11 ELSE 10)
         ELSE 0

\* mktime(strptime(t)) in zone z after a conversion that used the offset prev:
\* seconds since 1-Jan-1970 00:00 UTC, for the years 1970..2037.
MkTime(z, t, prev) ==
    DayNumber(t.year, MonthIndex(t.mon), t.day) * SECONDS_PER_DAY
    + t.hour * 3600 + t.min * 60
    - UtcOffsetHours(z, t, prev) * 3600

\* parse_date_time's result where strptime does not raise.
parse_date_time(z, t, prev) == MkTime(z, t, prev)

\* int(x / y): the quotient truncated toward zero.
PyIntDiv(x, y) == IF x >= 0 THEN x \div y ELSE -((-x) \div y)

days_difference(time_recent, time_older) ==
    PyIntDiv(time_recent - time_older, SECONDS_PER_DAY)

\* args.epoch.strip() + ' ' + LAST_MINUTE_OF_DAY
EpochText(a) ==
    [day |-> a.epoch.day, mon |-> a.epoch.mon, year |-> a.epoch.year,
     hour |-> LAST_MINUTE_OF_DAY.hour, min |-> LAST_MINUTE_OF_DAY.min]

----------------------------------------------------------------------------
(* read_records *)

Record(t, a) == [time |-> t, action |-> a]

AnyRowHasFields(row) == row.len >= 1

HasExpectedFields(row) == row.len = NUM_FIELDS

IsKnownAction(action) == action \in KnownActions

RECURSIVE ReadFromSkipping(_, _, _, _, _, _)
ReadFromSkipping(z, rs, i, recs, out, prev) ==
    IF i > Len(rs)
    THEN [records |-> recs, diag |-> out, raised |-> FALSE, offset |-> prev]
    ELSE LET row == rs[i] IN
         IF HasExpectedFields(row) /\ IsKnownAction(row.last)
                /\ DateOk(row.first)
         THEN ReadFromSkipping(z, rs, i + 1,
                  Append(recs,
                      Record(parse_date_time(z, row.first, prev), row.last)),
                  out, UtcOffsetHours(z, row.first, prev))
         ELSE IF HasExpectedFields(row) /\ ~IsKnownAction(row.last)
              THEN ReadFromSkipping(z, rs, i + 1, recs, Append(out, row), prev)
              ELSE ReadFromSkipping(z, rs, i + 1, recs, out, prev)

\* The loop of read_records from row i on: the records appended, the rows
\* printed as unrecognised, whether strptime raised, and the offset the last
\* mktime call used (prev where the loop makes none).
RECURSIVE ReadFrom(_, _, _, _, _, _)
ReadFrom(z, rs, i, recs, out, prev) ==
    IF i > Len(rs)
    THEN [records |-> recs, diag |-> out, raised |-> FALSE, offset |-> prev]
    ELSE LET row == rs[i] IN
         IF HasExpectedFields(row)
         THEN IF IsKnownAction(row.last)
              THEN IF DateOk(row.first)
                   THEN ReadFrom(z, rs, i + 1,
                            Append(recs,
                                Record(parse_date_time(z, row.first, prev),
                                       row.last)),
                            out, UtcOffsetHours(z, row.first, prev))
                   ELSE [records |-> recs, diag |-> out, raised |-> TRUE,
                         offset |-> prev]
              ELSE ReadFrom(z, rs, i + 1, recs, Append(out, row), prev)
         ELSE ReadFrom(z, rs, i + 1, recs, out, prev)

read_records(z, rs, prev) == ReadFrom(z, rs, 1, <<>>, <<>>, prev)

----------------------------------------------------------------------------
(* main: list(reversed(records)) *)

NotReversed(s) == s

Reversed(s) == [i \in 1..Len(s) |-> s[Len(s) + 1 - i]]

----------------------------------------------------------------------------
(* process_records *)

EmptyHistogram == [d \in {} |-> 0]

IgnoreRemoved(n, action) == IF action = "Added" THEN n + 1 ELSE n

\* The if/elif on record.action.
Tally(n, action) ==
    IF action = "Added" THEN n + 1
    ELSE IF action = "Removed" THEN n - 1
    ELSE n

KeepFirst(h, day, n) ==
    [d \in DOMAIN h \cup {day} |-> IF d \in DOMAIN h THEN h[d] ELSE n]

\* histogram[day] = num_students
Assign(h, day, n) ==
    [d \in DOMAIN h \cup {day} |-> IF d = day THEN n ELSE h[d]]

LoopBodyPreUpdate(n, h, record, ep) ==
    [num  |-> Tally(n, record.action),
     hist |-> Assign(h, days_difference(record.time, ep), n)]

\* The body of `for record in records`: the day, the count, the entry.
LoopBody(n, h, record, ep) ==
    [num  |-> Tally(n, record.action),
     hist |-> Assign(h, days_difference(record.time, ep),
                     Tally(n, record.action))]

\* The loop from record i on, started with count n and histogram h.
RECURSIVE WalkFrom(_, _, _, _, _)
WalkFrom(recs, ep, i, n, h) ==
    IF i > Len(recs) THEN h
    ELSE WalkFrom(recs, ep, i + 1, LoopBody(n, h, recs[i], ep).num,
                  LoopBody(n, h, recs[i], ep).hist)

\* sorted(histogram.items()): the (day, num) pairs in ascending order.
RECURSIVE SortedItems(_)
SortedItems(h) ==
    IF DOMAIN h = {} THEN <<>>
    ELSE LET m == CHOOSE x \in DOMAIN h : \A y \in DOMAIN h : x <= y
         IN  <<(<<m, h[m]>>)>> \o
             SortedItems([d \in (DOMAIN h) \ {m} |-> h[d]])

StrictlyInBounds(a, day) == -a.low < day /\ day < a.high

\* -args.low <= day <= args.high
InBounds(a, day) == -a.low <= day /\ day <= a.high

WithinBounds(a, h) == SelectSeq(SortedItems(h), LAMBDA it : InBounds(a, it[1]))

----------------------------------------------------------------------------
(* plot_data *)

LabelOnly(a, nums) == a.label

\* args.label and num_students
ShowLabel(a, nums) == a.label /\ nums # <<>>

SeqMax(s) == CHOOSE x \in {s[i] : i \in 1..Len(s)} :
                 \A j \in 1..Len(s) : s[j] <= x

----------------------------------------------------------------------------
(* Inputs *)

MaxRows == 3

Jun == <<"J", "u", "n">>

Jul == <<"J", "u", "l">>

JUL == <<"J", "U", "L">>

Aug == <<"A", "u", "g">>

Feb == <<"F", "e", "b">>

Mar == <<"M", "a", "r">>

Apr == <<"A", "p", "r">>

Oct == <<"O", "c", "t">>

\* The month of an epoch typed as 28-07-2014.
Digits07 == <<"0", "7">>

T(d, mo, y, h, mi) == [day |-> d, mon |-> mo, year |-> y, hour |-> h, min |-> mi]

Row(n, t, a) == [len |-> n, first |-> t, last |-> a]

BadDate == T(31, Jun, 2014, 9, 0)

FileRows ==
    { Row(6, T(29, Jul, 2014, 9, 0), "Removed"),
      Row(6, T(27, Jul, 2014, 20, 0), "Added"),
      Row(6, T(27, Jul, 2014, 10, 0), "Added"),
      Row(6, T(27, Jul, 2014, 8, 0), "Added"),
      Row(6, T(26, Jul, 2014, 12, 0), "Removed"),
      Row(6, BadDate, "Transferred"),
      Row(6, BadDate, "Added"),
      Row(5, T(28, Jul, 2014, 12, 0), "Added") }

\* Files whose second row is in the hour that Melbourne's clocks repeat on
\* 5-Apr-2015; the first row is in daylight time (4-Apr) or in standard time
\* (6-Apr), and it is parsed (Added) or not (Transferred).
RepeatedHourFiles ==
    { << Row(6, T(d, Apr, 2015, 10, 0), a),
         Row(6, T(5, Apr, 2015, 2, 30), "Removed") >> :
          d \in {4, 6}, a \in {"Added", "Transferred"} }

E(d, mo, y) == [day |-> d, mon |-> mo, year |-> y]

Epochs == { E(28, Jul, 2014), E(28, Digits07, 2014) }

Lows == {0, 28}

Highs == {100}

SeqsUpTo(S, n) == UNION { [1..k -> S] : k \in 0..n }

----------------------------------------------------------------------------
(* The program *)

\* A process that has made no mktime call and has not begun main.
Fresh ==
    /\ localtime_offset = 0
    /\ pc = "start"
    /\ records = <<>>
    /\ chron = <<>>
    /\ diag = <<>>
    /\ epoch = 0
    /\ idx = 0
    /\ num_students = 0
    /\ histogram = EmptyHistogram
    /\ days = <<>>
    /\ counts = <<>>
    /\ chart = "none"
    /\ annotation = "none"
    /\ raised = "none"

Init ==
    /\ tz \in Zones
    /\ rows \in SeqsUpTo(FileRows, MaxRows) \cup RepeatedHourFiles
    /\ args \in [epoch : Epochs, low : Lows, high : Highs, label : BOOLEAN]
    /\ Fresh

\* main: records = read_records(args.csv_filename), returning normally.
ReadRecords ==
    /\ pc = "start"
    /\ ~read_records(tz, rows, localtime_offset).raised
    /\ records' = read_records(tz, rows, localtime_offset).records
    /\ diag' = read_records(tz, rows, localtime_offset).diag
    /\ localtime_offset' = read_records(tz, rows, localtime_offset).offset
    /\ pc' = "read"
    /\ UNCHANGED <<tz, rows, args, chron, epoch, idx, num_students, histogram,
                   days, counts, chart, annotation, raised>>

\* read_records: strptime raises ValueError, which nothing catches.
ReadRecordsRaise ==
    /\ pc = "start"
    /\ read_records(tz, rows, localtime_offset).raised
    /\ diag' = read_records(tz, rows, localtime_offset).diag
    /\ localtime_offset' = read_records(tz, rows, localtime_offset).offset
    /\ raised' = "strptime"
    /\ pc' = "failed"
    /\ UNCHANGED <<tz, rows, args, records, chron, epoch, idx, num_students,
                   histogram, days, counts, chart, annotation>>

\* main: `if records:` is false.
MainEmpty ==
    /\ pc = "read"
    /\ records = <<>>
    /\ pc' = "done"
    /\ UNCHANGED <<tz, localtime_offset, rows, args, records, chron, diag,
                   epoch, idx, num_students, histogram, days, counts, chart, annotation, raised>>

\* main: records = list(reversed(records)), a new list.
MainReverse ==
    /\ pc = "read"
    /\ records # <<>>
    /\ chron' = Reversed(records)
    /\ pc' = "process"
    /\ UNCHANGED <<tz, localtime_offset, rows, args, records, diag, epoch, idx,
                   num_students, histogram, days, counts, chart, annotation, raised>>

\* process_records up to the loop: the accumulator, the histogram, the epoch.
ProcessStart ==
    /\ pc = "process"
    /\ DateOk(EpochText(args))
    /\ num_students' = 0
    /\ histogram' = EmptyHistogram
    /\ epoch' = parse_date_time(tz, EpochText(args), localtime_offset)
    /\ localtime_offset' = UtcOffsetHours(tz, EpochText(args), localtime_offset)
    /\ idx' = 0
    /\ pc' = "walk"
    /\ UNCHANGED <<tz, rows, args, records, chron, diag, days, counts, chart,
                   annotation, raised>>

\* process_records: strptime raises on the epoch text.
ProcessRaise ==
    /\ pc = "process"
    /\ ~DateOk(EpochText(args))
    /\ raised' = "strptime"
    /\ pc' = "failed"
    /\ UNCHANGED <<tz, localtime_offset, rows, args, records, chron, diag,
                   epoch, idx, num_students, histogram, days, counts, chart, annotation>>

\* One iteration of `for record in records`.
WalkStep ==
    /\ pc = "walk"
    /\ idx < Len(chron)
    /\ num_students' = LoopBody(num_students, histogram, chron[idx + 1], epoch).num
    /\ histogram' = LoopBody(num_students, histogram, chron[idx + 1], epoch).hist
    /\ idx' = idx + 1
    /\ UNCHANGED <<tz, localtime_offset, rows, args, pc, records, chron, diag,
                   epoch, days, counts, chart, annotation, raised>>

\* The second loop of process_records: the two lists for plotting.
BuildSeries ==
    /\ pc = "walk"
    /\ idx = Len(chron)
    /\ days' = [i \in 1..Len(WithinBounds(args, histogram)) |->
                   WithinBounds(args, histogram)[i][1]]
    /\ counts' = [i \in 1..Len(WithinBounds(args, histogram)) |->
                     WithinBounds(args, histogram)[i][2]]
    /\ pc' = "plot"
    /\ UNCHANGED <<tz, localtime_offset, rows, args, records, chron, diag,
                   epoch, idx, num_students, histogram, chart, annotation, raised>>

\* plot_data: plot, optionally annotate, savefig.  max() of an empty list
\* raises ValueError before the figure is saved.
PlotData ==
    /\ pc = "plot"
    /\ IF ShowLabel(args, counts)
       THEN IF counts = <<>>
            THEN /\ raised' = "max"
                 /\ pc' = "failed"
                 /\ UNCHANGED <<chart, annotation>>
            ELSE /\ annotation' = [maximum_enrolment |-> SeqMax(counts),
                                   current_enrolment |-> counts[Len(counts)]]
                 /\ chart' = "saved"
                 /\ pc' = "done"
                 /\ UNCHANGED raised
       ELSE /\ chart' = "saved"
            /\ pc' = "done"
            /\ UNCHANGED <<annotation, raised>>
    /\ UNCHANGED <<tz, localtime_offset, rows, args, records, chron, diag,
                   epoch, idx, num_students, histogram, days, counts>>

Next ==
    \/ ReadRecords
    \/ ReadRecordsRaise
    \/ MainEmpty
    \/ MainReverse
    \/ ProcessStart
    \/ ProcessRaise
    \/ WalkStep
    \/ BuildSeries
    \/ PlotData

Spec == Init /\ [][Next]_vars

----------------------------------------------------------------------------
(* One-row files over a grid of instants around several epochs: the day    *)
(* offset of a single event.                                               *)

GridDates ==
    { E(26, Jul, 2014), E(27, Jul, 2014), E(28, Jul, 2014),
      E(29, Jul, 2014), E(30, Jul, 2014), E(31, Jul, 2014),
      E(1, Aug, 2014), E(28, Feb, 2016), E(29, Feb, 2016),
      E(1, Mar, 2016), E(4, Apr, 2015), E(5, Apr, 2015), E(6, Apr, 2015),
      E(3, Oct, 2015), E(4, Oct, 2015), E(5, Oct, 2015), E(29, JUL, 2014) }

GridClock == { <<0, 0>>, <<0, 30>>, <<2, 30>>, <<10, 0>>, <<23, 58>>, <<23, 59>> }

GridTexts ==
    { T(d.day, d.mon, d.year, c[1], c[2]) : d \in GridDates, c \in GridClock }
        \cup {BadDate}

GridEpochs ==
    { E(28, Jul, 2014), E(28, JUL, 2014), E(31, Jul, 2014),
      E(29, Feb, 2016), E(5, Apr, 2015), E(4, Oct, 2015),
      E(28, Digits07, 2014) }

InitDays ==
    /\ tz \in Zones
    /\ rows \in {<<>>} \cup
           { <<Row(NUM_FIELDS, t, a)>> :
                 t \in GridTexts, a \in {"Added", "Removed", "Transferred"} }
    /\ args \in [epoch : GridEpochs, low : {DEFAULT_LOW_BOUND},
                 high : {DEFAULT_HIGH_BOUND}, label : BOOLEAN]
    /\ Fresh

SpecDays == InitDays /\ [][Next]_vars

----------------------------------------------------------------------------
(* The series of an arbitrary histogram: process_records from the end of   *)
(* its first loop.                                                         *)

MaxDay == 2

MaxBound == 2

Histograms ==
    UNION { [D -> {-1, 1}] : D \in SUBSET (-MaxDay..MaxDay) }

InitSeries ==
    /\ tz \in Zones
    /\ rows = <<>>
    /\ args \in [epoch : {E(28, Jul, 2014)}, low : 0..MaxBound,
                 high : 0..MaxBound, label : BOOLEAN]
    /\ pc = "walk"
    /\ records = <<>>
    /\ chron = <<>>
    /\ diag = <<>>
    /\ epoch = parse_date_time(tz, EpochText(args), 0)
    /\ localtime_offset = UtcOffsetHours(tz, EpochText(args), 0)
    /\ idx = 0
    /\ num_students = 0
    /\ histogram \in Histograms
    /\ days = <<>>
    /\ counts = <<>>
    /\ chart = "none"
    /\ annotation = "none"
    /\ raised = "none"

NextSeries == BuildSeries \/ PlotData

SpecSeries == InitSeries /\ [][NextSeries]_vars

----------------------------------------------------------------------------
(* Vocabulary of the properties *)

\* The first loop of process_records has run to its end.
WalkDone == pc \in {"plot", "done"} \/ (pc = "walk" /\ idx = Len(chron))

\* read_records has returned to main.
ReadReturned ==
    pc \in {"read", "process", "walk", "plot", "done"}
        \/ (pc = "failed" /\ chron # <<>>)

Terminal == pc \in {"done", "failed"}

\* The instant of the epoch text: 23:59 is in no skipped or repeated hour, so
\* the conversions made before it have no part in it.
EpochInstant == MkTime(tz, EpochText(args), 0)

\* The offset mktime has used last when it comes to row i of s, in a process
\* whose first conversions are those of the rows of s.
RECURSIVE OffsetBefore(_, _)
OffsetBefore(s, i) ==
    IF i = 1 THEN 0
    ELSE UtcOffsetHours(tz, s[i - 1].first, OffsetBefore(s, i - 1))

\* The instant mktime gives for row i of s in such a process.
InstantOf(s, i) == MkTime(tz, s[i].first, OffsetBefore(s, i))

DayOffset(r) == days_difference(r.time, EpochInstant)

\* The accepted records are in reverse-chronological file order.
FileOrderNewestFirst ==
    \A i, j \in 1..Len(records) :
        i < j => records[i].time >= records[j].time

Count(s, action, P(_)) ==
    Cardinality({ i \in 1..Len(s) : s[i].action = action /\ P(i) })

\* Added minus Removed over the records of s whose index satisfies P.
Net(s, P(_)) == Count(s, "Added", P) - Count(s, "Removed", P)

KeptRow(row) == row.len = 6 /\ row.last \in {"Added", "Removed"}

DiagnosedRow(row) == row.len = 6 /\ row.last \notin {"Added", "Removed"}

KeptRows == SelectSeq(rows, KeptRow)

Ascending(s) == \A i, j \in 1..Len(s) : i < j => s[i] < s[j]

----------------------------------------------------------------------------
(* C1 *)

\* C1: for accepted records in reverse-chronological file order, once the
\* walk has ended the histogram's keys are exactly the day offsets of the
\* accepted records, and the value at key d is (number of Added) minus
\* (number of Removed) over the accepted records whose day offset is <= d.
C1_HistogramIsNetCountByDay ==
    (WalkDone /\ FileOrderNewestFirst) =>
        /\ DOMAIN histogram = { DayOffset(records[i]) : i \in 1..Len(records) }
        /\ \A d \in DOMAIN histogram :
               histogram[d] =
                   Net(records, LAMBDA i : DayOffset(records[i]) <= d)

C1_Witness ==
    /\ WalkDone
    /\ FileOrderNewestFirst
    /\ Len(records) = 3
    /\ Cardinality(DOMAIN histogram) = 2
    /\ \E i \in 1..3 : records[i].action = "Removed"
    /\ records[1].time > records[3].time

----------------------------------------------------------------------------
(* C2 *)

\* C2: with epoch 28-Jul-2014, low 28, high 100 and the file rows
\* (29-Jul-2014 09:00, Removed), (27-Jul-2014 10:00, Added), the finished run
\* has days = [-1, 1] and counts = [1, 0], maximum 1 and current 0.
C2_ScenarioSeries ==
    ( /\ pc = "done"
      /\ args.epoch = E(28, Jul, 2014)
      /\ args.low = 28
      /\ args.high = 100
      /\ rows = << Row(6, T(29, Jul, 2014, 9, 0), "Removed"),
                   Row(6, T(27, Jul, 2014, 10, 0), "Added") >> )
    => /\ days = <<-1, 1>>
       /\ counts = <<1, 0>>
       /\ SeqMax(counts) = 1
       /\ counts[Len(counts)] = 0

----------------------------------------------------------------------------
(* C3 *)

\* The event of a one-row file has been walked.
C3_Walked == WalkDone /\ Len(rows) = 1 /\ Len(chron) = 1

C3_Delta == InstantOf(rows, 1) - EpochInstant

C3_Day == CHOOSE d \in DOMAIN histogram : TRUE

\* C3: the day offset is the quotient of (event - epoch at 23:59) by one day
\* truncated toward zero: an event less than a full day from the epoch
\* instant, and in particular every event on the epoch date, has offset 0;
\* an offset <= -1 needs a full day before the epoch instant and an offset
\* >= 1 a full day after it.  (The clause on the epoch date fails where the
\* local day is longer than 24 hours.)
C3_TruncatedDayOffset ==
    C3_Walked =>
        /\ Cardinality(DOMAIN histogram) = 1
        /\ C3_Delta >= 0 =>
               /\ C3_Day * 86400 <= C3_Delta
               /\ C3_Delta < (C3_Day + 1) * 86400
        /\ C3_Delta <= 0 =>
               /\ (C3_Day - 1) * 86400 < C3_Delta
               /\ C3_Delta <= C3_Day * 86400
        /\ (-86400 < C3_Delta /\ C3_Delta < 86400) => C3_Day = 0
        /\ ( /\ rows[1].first.day = args.epoch.day
             /\ Lower(rows[1].first.mon) = Lower(args.epoch.mon)
             /\ rows[1].first.year = args.epoch.year ) => C3_Day = 0
        /\ C3_Day <= -1 => C3_Delta <= -86400
        /\ C3_Day >= 1 => C3_Delta >= 86400

----------------------------------------------------------------------------
(* C4 *)

\* C4: when read_records returns, its records are, in file order, exactly the
\* rows with 6 fields whose last field is Added or Removed, the rows printed
\* are exactly the 6-field rows with another last field, and the histogram
\* equals the one computed from the input with every dropped row deleted.
C4_ReadKeepsExactlyValidRows ==
    /\ ReadReturned =>
           /\ Len(records) = Len(KeptRows)
           /\ \A i \in 1..Len(records) :
                  /\ records[i].action = KeptRows[i].last
                  /\ records[i].time = InstantOf(KeptRows, i)
           /\ diag = SelectSeq(rows, DiagnosedRow)
    /\ (WalkDone /\ ReadReturned) =>
           histogram =
               WalkFrom(Reversed(read_records(tz, KeptRows, 0).records),
                        EpochInstant, 1, 0, EmptyHistogram)

C4_Witness ==
    /\ WalkDone
    /\ Len(rows) = 3
    /\ KeptRow(rows[1])
    /\ DiagnosedRow(rows[2])
    /\ KeptRow(rows[3])
    /\ Len(records) = 2
    /\ Len(diag) = 1

----------------------------------------------------------------------------
(* C5 *)

\* C5: the series is exactly the histogram entries with -low <= day <= high
\* in ascending day order: the lists have equal length, days is strictly
\* ascending, counts[i] is the histogram's value at days[i], and with low = 0
\* and high = 0 the series is day 0 with its count if 0 is a key, else empty.
C5_SeriesIsWindowOfHistogram ==
    pc \in {"plot", "done"} =>
        /\ Len(days) = Len(counts)
        /\ Ascending(days)
        /\ { days[i] : i \in 1..Len(days) } =
               { d \in DOMAIN histogram : -args.low <= d /\ d <= args.high }
        /\ \A i \in 1..Len(days) : counts[i] = histogram[days[i]]
        /\ (args.low = 0 /\ args.high = 0) =>
               IF 0 \in DOMAIN histogram
               THEN days = <<0>> /\ counts = <<histogram[0]>>
               ELSE days = <<>> /\ counts = <<>>

C5_Witness ==
    /\ pc = "plot"
    /\ args.low >= 1
    /\ args.high >= 1
    /\ -args.low \in DOMAIN histogram
    /\ args.high \in DOMAIN histogram
    /\ \E d \in DOMAIN histogram : d < -args.low
    /\ \E d \in DOMAIN histogram : d > args.high
    /\ Len(days) >= 3
    /\ days[1] = -args.low
    /\ days[Len(days)] = args.high

----------------------------------------------------------------------------
(* C6 *)

C6_BadEpoch == ~DateOk(EpochText(args))

C6_BadRowDate ==
    \E i \in 1..Len(rows) : rows[i].len = 6 /\ ~DateOk(rows[i].first)

C6_BadKeptRowDate ==
    \E i \in 1..Len(rows) : KeptRow(rows[i]) /\ ~DateOk(rows[i].first)

C6_SomeKeptRow == \E i \in 1..Len(rows) : KeptRow(rows[i])

C6_NoResult ==
    /\ chart = "none"
    /\ annotation = "none"
    /\ days = <<>>
    /\ counts = <<>>
    /\ histogram = EmptyHistogram

\* C6 as stated: a run with a malformed epoch, or with a malformed date-time
\* in some 6-field row, never finishes normally.
C6_AnyMalformedTextIsFatal ==
    (C6_BadEpoch \/ C6_BadRowDate) => pc # "done"

\* C6 amended: a run in which some 6-field row whose action is Added or
\* Removed has a malformed date-time, or in which the epoch is malformed and
\* at least one row is accepted, never finishes normally and never saves a
\* chart; it runs on until it stops in the uncaught parse failure with no
\* series and no histogram.  A run that stops in a failure is such a run.
C6_ParsedMalformedTextIsFatal ==
    /\ (C6_BadKeptRowDate \/ (C6_BadEpoch /\ C6_SomeKeptRow)) =>
           /\ pc # "done"
           /\ C6_NoResult
           /\ pc = "failed" => raised = "strptime"
           /\ pc = "start" =>
                  read_records(tz, rows, 0).raised = C6_BadKeptRowDate
           /\ pc = "read" => ENABLED MainReverse
           /\ pc = "process" => ENABLED ProcessRaise
           /\ pc \in {"start", "read", "process", "failed"}
    /\ pc = "failed" => (C6_BadKeptRowDate \/ (C6_BadEpoch /\ C6_SomeKeptRow))

C6_Witness ==
    /\ pc = "failed"
    /\ raised = "strptime"
    /\ C6_BadEpoch
    /\ ~C6_BadKeptRowDate
    /\ Len(records) = 2
    /\ Len(diag) = 1

----------------------------------------------------------------------------
(* C7 *)

\* C7: max() and [-1] are never applied to an empty series.  With no valid
\* record process_records is not called: no tally, no series, no chart, and
\* the run ends normally.  With a window that excludes every entry the
\* series is empty, the chart is saved and nothing is annotated, --label or
\* not.
C7_NoMaxOfEmptySeries ==
    /\ raised # "max"
    /\ (ReadReturned /\ records = <<>>) =>
           /\ pc \in {"read", "done"}
           /\ chron = <<>>
           /\ idx = 0
           /\ C6_NoResult
           /\ raised = "none"
    /\ (pc = "read" /\ records = <<>>) => ENABLED MainEmpty
    /\ (pc = "plot" /\ counts = <<>>) => annotation = "none"
    /\ (pc = "done" /\ records # <<>> /\ counts = <<>>) =>
           /\ days = <<>>
           /\ chart = "saved"
           /\ annotation = "none"

C7_Witness ==
    /\ pc = "done"
    /\ args.label
    /\ records # <<>>
    /\ histogram # EmptyHistogram
    /\ counts = <<>>
    /\ chart = "saved"

----------------------------------------------------------------------------
(* C8 *)

C8_LastIndexOf(d) ==
    CHOOSE i \in 1..idx :
        /\ DayOffset(chron[i]) = d
        /\ \A j \in 1..idx : DayOffset(chron[j]) = d => j <= i

\* C8: in whatever order the records are walked, after each iteration the
\* histogram has one entry per day offset seen so far, and the entry of day d
\* is the count right after the last record walked so far whose offset is d;
\* two Added on 27-Jul-2014 (08:00, 20:00) give the single entry 2.
C8_LastWriteWinsPerDay ==
    (pc \in {"walk", "plot", "done"} /\ Len(chron) > 0) =>
        /\ num_students = Net(chron, LAMBDA i : i <= idx)
        /\ DOMAIN histogram = { DayOffset(chron[i]) : i \in 1..idx }
        /\ \A d \in DOMAIN histogram :
               histogram[d] =
                   Net(chron, LAMBDA i : i <= C8_LastIndexOf(d))
        /\ ( /\ idx = 2
             /\ Len(chron) = 2
             /\ rows = << Row(6, T(27, Jul, 2014, 20, 0), "Added"),
                          Row(6, T(27, Jul, 2014, 8, 0), "Added") >> )
           => /\ Cardinality(DOMAIN histogram) = 1
              /\ \A d \in DOMAIN histogram : histogram[d] = 2

C8_Witness ==
    /\ pc = "walk"
    /\ idx = 3
    /\ ~FileOrderNewestFirst
    /\ Cardinality(DOMAIN histogram) = 2
    /\ DayOffset(chron[1]) = DayOffset(chron[3])
    /\ DayOffset(chron[2]) # DayOffset(chron[1])
    /\ chron[3].action = "Removed"

----------------------------------------------------------------------------
(* C9 *)

C9_WalkIsFileOrderBackwards ==
    pc \in {"process", "walk", "plot", "done"} =>
        /\ Len(chron) = Len(KeptRows)
        /\ \A i \in 1..Len(chron) :
               /\ chron[i].action = KeptRows[Len(KeptRows) + 1 - i].last
               /\ chron[i].time = InstantOf(KeptRows, Len(KeptRows) + 1 - i)
        /\ (pc = "walk" /\ idx = 1) =>
               /\ DOMAIN histogram =
                      { days_difference(InstantOf(KeptRows, Len(KeptRows)),
                                        EpochInstant) }
               /\ num_students =
                      (IF KeptRows[Len(KeptRows)].last = "Added" THEN 1 ELSE -1)

\* C9: between read_records and the walk the records are reversed exactly
\* once, so the walk visits the last accepted file row first and the first
\* one last; the list read_records returned is never changed afterwards, and
\* the walk does not change the list it is given.
C9_ReversedOnceNoMutation ==
    /\ []C9_WalkIsFileOrderBackwards
    /\ [][ /\ pc # "start" => records' = records
           /\ pc \in {"process", "walk", "plot"} => chron' = chron ]_vars

C9_Witness ==
    /\ pc = "walk"
    /\ idx = 1
    /\ Len(records) = 3
    /\ records[1] # records[3]
    /\ chron[1] = records[3]
    /\ chron[3] = records[1]

----------------------------------------------------------------------------
(* C10 *)

\* C10: for a non-empty input in reverse-chronological file order whose most
\* recent event has its day offset in [-low, high], the last count of the
\* series is (all Added) - (all Removed), and the maximum is at least that;
\* the annotation, when drawn, shows these two numbers.  Counts may be
\* negative.
C10_CurrentIsTotalNet ==
    ( /\ pc \in {"plot", "done"}
      /\ records # <<>>
      /\ FileOrderNewestFirst
      /\ -args.low <= DayOffset(records[1])
      /\ DayOffset(records[1]) <= args.high )
    => /\ counts # <<>>
       /\ counts[Len(counts)] = Net(records, LAMBDA i : TRUE)
       /\ SeqMax(counts) >= counts[Len(counts)]
       /\ (pc = "done" /\ args.label) =>
              /\ annotation.current_enrolment = Net(records, LAMBDA i : TRUE)
              /\ annotation.maximum_enrolment >= annotation.current_enrolment
              /\ \A i \in 1..Len(counts) :
                     counts[i] <= annotation.maximum_enrolment

C10_Witness ==
    /\ pc = "done"
    /\ args.label
    /\ Len(records) = 3
    /\ FileOrderNewestFirst
    /\ -args.low <= DayOffset(records[1])
    /\ DayOffset(records[1]) <= args.high
    /\ records[3].action = "Removed"
    /\ counts[1] < 0
    /\ annotation.current_enrolment = -1
    /\ annotation.maximum_enrolment = 0

=============================================================================
